---- MODULE Spec2Model ----
(***************************************************************************)
(* Model of maml_zoo/policies/base.py: the Policy / MetaPolicy base        *)
(* classes.  One object of class MetaPolicy (or of a subclass that only    *)
(* adds the policy_params attribute) is modelled together with the         *)
(* TensorFlow graph and session it works on.  Every method is one action;  *)
(* the action records which method ran, its argument, how it ended and     *)
(* what it returned.                                                       *)
(***************************************************************************)
EXTENDS Integers, Sequences, FiniteSets

(* ------------------------------ bounds --------------------------------- *)

\* number of trainable variables in the graph
MaxVars == 2
\* number of entries of a policy_params dictionary handed to set_params
MaxKeys == 2
\* length of a list of per-task parameters
MaxTasks == 1
\* meta batch size
MaxBatch == 2
\* number of scopes handed to _create_placeholders_for_vars
MaxScopes == 2

\* the values a variable holds, and the observations
Values == {0, 1}
Observations == {0, 1}
ScopeNames == {"policy", "vf"}
LocalNames == {"w", "b"}

(* ------------------------------ helpers -------------------------------- *)

\* Python's None, and a present value
None == [tag |-> "None"]
Some(v) == [tag |-> "Some", v |-> v]
\* an attribute that was never assigned (reading it raises AttributeError)
Unset == [tag |-> "Unset"]

Min(a, b) == IF a <= b THEN a ELSE b

\* all sequences over S of length at most n
SeqsUpTo(S, n) == UNION {[1..k -> S] : k \in 0..n}

\* a sequence without repeated elements
Distinct(s) == \A i, j \in DOMAIN s : i /= j => s[i] /= s[j]

\* an OrderedDict is a sequence of <<key, value>> pairs with distinct keys
Keys(d) == [i \in DOMAIN d |-> d[i][1]]
Vals(d) == [i \in DOMAIN d |-> d[i][2]]
OrderedDicts(K, V, n) == {d \in SeqsUpTo(K \X V, n) : Distinct(Keys(d))}

\* Python's zip: pairs up to the shorter length
Zip(a, b) == [i \in 1..Min(Len(a), Len(b)) |-> <<a[i], b[i]>>]

\* shape of a variable (weights are matrices, biases vectors)
ShapeOf(local) == IF local = "w" THEN <<"n", "m">> ELSE <<"m">>

\* the graphs: TRAINABLE_VARIABLES collections of uniquely named variables
Graphs == {g \in SeqsUpTo(ScopeNames \X LocalNames, MaxVars) : Distinct(g)}

\* the values handed as scopes: lists and tuples of scope names, and values
\* that are neither
ScopesArgs ==
    {[type |-> t, items |-> it] : t \in {"list", "tuple"},
                                  it \in SeqsUpTo(ScopeNames, MaxScopes)}
    \cup {[type |-> t, items |-> <<>>] : t \in {"str", "NoneType"}}

\* the lists of per-task parameters handed to update_task_parameters
TaskParams == SeqsUpTo(Values, MaxTasks)

VARIABLES
    trainable_variables,        \* graph collection: sequence of <<scope, local>>
    var_values,                 \* session: value of each variable, by index
    init_args,                  \* Serializable's stored constructor arguments (name)
    policy_params,              \* Unset, or Some(OrderedDict local name -> variable index)
    param_assign_ops,
    param_assign_placeholders,
    pre_update_mode,            \* self._pre_update_mode
    policies_params_vals,       \* None, or Some(list of per-task parameters)
    pickled,                    \* None, or Some(state) produced by __getstate__
    method,                     \* the method called last
    arg,                        \* its argument
    outcome,                    \* "ok", or the exception it raised
    ret,                        \* its return value
    called,                     \* the delegates get_actions called
    lastModeCall,               \* history: last of switch_to_pre_update / update_task_parameters
    repeated                    \* history: the last two calls were both switch_to_pre_update

graph == <<trainable_variables, var_values>>
fields == <<init_args, policy_params, param_assign_ops, param_assign_placeholders,
            pre_update_mode, policies_params_vals>>
callrec == <<method, arg, outcome, ret, called>>
vars == <<graph, fields, pickled, callrec, lastModeCall, repeated>>

\* A placeholder is a graph node of its own: within one call the placeholders are
\* told apart by the order of their creation.

\* the variables tf.get_collection(graph_keys, scope) returns, as indices, in
\* collection order
get_collection(scope) ==
    SelectSeq([i \in DOMAIN trainable_variables |-> i],
              LAMBDA i : trainable_variables[i][1] = scope)

\* remove_scope_from_name(var.name, scope): the name without its scope
remove_scope_from_name(name, scope) == name[2]

\* what a subclass constructor binds to self.policy_params: the variables it
\* built under its name scope
BuiltParams(name) ==
    LET c == get_collection(name)
    IN  [i \in DOMAIN c |-> <<remove_scope_from_name(trainable_variables[c[i]], name), c[i]>>]

\* bookkeeping common to every call
Record(m, a, o, r, c) ==
    /\ method' = m
    /\ arg' = a
    /\ outcome' = o
    /\ ret' = r
    /\ called' = c
    /\ repeated' = (m = "switch_to_pre_update" /\ method = m)

(* ------------------------------- Init ---------------------------------- *)

\* Policy.__init__ followed by MetaPolicy.__init__; the graph and the session
\* are those of the process, with every variable initialised
Init ==
    /\ trainable_variables \in Graphs
    /\ var_values \in [DOMAIN trainable_variables -> Values]
    /\ init_args \in ScopeNames
    /\ policy_params \in {Unset, Some(BuiltParams(init_args))}
    /\ param_assign_ops = None
    /\ param_assign_placeholders = None
    /\ pre_update_mode = TRUE
    /\ policies_params_vals = None
    /\ pickled = None
    /\ method = "__init__"
    /\ arg = None
    /\ outcome = "ok"
    /\ ret = None
    /\ called = {}
    /\ lastModeCall = "none"
    /\ repeated = FALSE

(* --------------------------- Policy methods ---------------------------- *)

Policy_build_graph ==
    /\ Record("Policy.build_graph", None, "NotImplementedError", None, {})
    /\ UNCHANGED <<graph, fields, pickled, lastModeCall>>

get_action(observation) ==
    /\ Record("get_action", None, "NotImplementedError", None, {})
    /\ UNCHANGED <<graph, fields, pickled, lastModeCall>>

Policy_get_actions(observations) ==
    /\ Record("Policy.get_actions", None, "NotImplementedError", None, {})
    /\ UNCHANGED <<graph, fields, pickled, lastModeCall>>

\* reset as it would be if it also returned the policy to pre-update mode
reset_mut(dones) ==
    /\ pre_update_mode' = TRUE
    /\ policies_params_vals' = None
    /\ Record("reset", None, "ok", None, {})
    /\ UNCHANGED <<graph, init_args, policy_params, param_assign_ops,
                   param_assign_placeholders, pickled, lastModeCall>>

reset(dones) ==
    /\ Record("reset", None, "ok", None, {})
    /\ UNCHANGED <<graph, fields, pickled, lastModeCall>>

\* log_diagnostics as it would be if it were left abstract
log_diagnostics_mut(paths) ==
    /\ Record("log_diagnostics", None, "NotImplementedError", None, {})
    /\ UNCHANGED <<graph, fields, pickled, lastModeCall>>

log_diagnostics(paths) ==
    /\ Record("log_diagnostics", None, "ok", None, {})
    /\ UNCHANGED <<graph, fields, pickled, lastModeCall>>

distribution ==
    /\ Record("distribution", None, "NotImplementedError", None, {})
    /\ UNCHANGED <<graph, fields, pickled, lastModeCall>>

distribution_info_sym(obs_var, params) ==
    /\ Record("distribution_info_sym", None, "NotImplementedError", None, {})
    /\ UNCHANGED <<graph, fields, pickled, lastModeCall>>

distribution_info_keys(obs, state_infos) ==
    /\ Record("distribution_info_keys", None, "NotImplementedError", None, {})
    /\ UNCHANGED <<graph, fields, pickled, lastModeCall>>

(* ---------------------- methods for serialization ---------------------- *)

get_params ==
    /\ IF policy_params = Unset
       THEN Record("get_params", None, "AttributeError", None, {})
       ELSE Record("get_params", None, "ok", policy_params.v, {})
    /\ UNCHANGED <<graph, fields, pickled, lastModeCall>>

\* session.run(self.policy_params): the dictionary with every variable
\* replaced by its current value
ParamValues(pp, vv) == [i \in DOMAIN pp |-> <<pp[i][1], vv[pp[i][2]]>>]

get_param_values ==
    /\ IF policy_params = Unset
       THEN Record("get_param_values", None, "AttributeError", None, {})
       ELSE Record("get_param_values", None, "ok",
                   ParamValues(policy_params.v, var_values), {})
    /\ UNCHANGED <<graph, fields, pickled, lastModeCall>>

\* the assertion of set_params: all([k1 == k2 for k1, k2 in zip(...)])
KeysMatch(own, given) ==
    LET z == Zip(Keys(own), Keys(given))
    IN  \A i \in DOMAIN z : z[i][1] = z[i][2]

\* the assign loop as it would be with one placeholder shared by all the assign
\* ops: every variable receives the value fed last
Assigned_mut(own, given, vv) ==
    LET z == Zip(Vals(own), given)
    IN  [j \in DOMAIN vv |->
            IF \E i \in DOMAIN z : z[i][1] = j THEN z[Len(z)][2][2] ELSE vv[j]]

\* the assign loop of set_params and the session run of its assign ops: the
\* i-th variable of the policy receives the i-th value given
Assigned(own, given, vv) ==
    LET z == Zip(Vals(own), given)
    IN  [j \in DOMAIN vv |->
            IF \E i \in DOMAIN z : z[i][1] = j
            THEN LET i == CHOOSE i \in DOMAIN z : z[i][1] = j IN z[i][2][2]
            ELSE vv[j]]

set_params(given) ==
    /\ IF policy_params = Unset
       THEN /\ Record("set_params", given, "AttributeError", None, {})
            /\ UNCHANGED graph
       ELSE IF ~KeysMatch(policy_params.v, given)
       THEN /\ Record("set_params", given, "AssertionError", None, {})
            /\ UNCHANGED graph
       ELSE /\ var_values' = Assigned(policy_params.v, given, var_values)
            /\ Record("set_params", given, "ok", None, {})
            /\ UNCHANGED trainable_variables
    /\ UNCHANGED <<fields, pickled, lastModeCall>>

\* the state is handed to the pickler, which holds it until it is loaded
__getstate__ ==
    /\ IF policy_params = Unset
       THEN /\ Record("__getstate__", None, "AttributeError", None, {})
            /\ UNCHANGED pickled
       ELSE LET state == [init_args |-> init_args,
                          network_params |-> ParamValues(policy_params.v, var_values)]
            IN  /\ Record("__getstate__", None, "ok", state, {})
                /\ pickled' = Some(state)
    /\ UNCHANGED <<graph, fields, lastModeCall>>

\* Serializable.__setstate__(self, d): the object is constructed again from the
\* stored constructor arguments and takes over the new object's attributes
Serializable_setstate(d) ==
    /\ init_args' = d
    /\ policy_params' = IF policy_params = Unset THEN Unset ELSE Some(BuiltParams(d))
    /\ param_assign_ops' = None
    /\ param_assign_placeholders' = None
    /\ pre_update_mode' = TRUE
    /\ policies_params_vals' = None
    /\ lastModeCall' = "none"

\* __setstate__ as it would be with the initializer run after set_params
Restored_mut(own, saved, iv) == iv

\* what __setstate__ leaves in the session: the initializer gives every
\* variable its initial value iv, then set_params assigns the saved values
Restored(own, saved, iv) == Assigned(own, saved, iv)

__setstate__(state) ==
    /\ Serializable_setstate(state.init_args)
    /\ \E iv \in [DOMAIN var_values -> Values] :
         IF policy_params' = Unset
         THEN /\ var_values' = iv
              /\ Record("__setstate__", None, "AttributeError", None, {})
         ELSE IF ~KeysMatch(policy_params'.v, state.network_params)
         THEN /\ var_values' = iv
              /\ Record("__setstate__", None, "AssertionError", None, {})
         ELSE /\ var_values' = Restored(policy_params'.v, state.network_params, iv)
              /\ Record("__setstate__", None, "ok", None, {})
    /\ UNCHANGED <<trainable_variables, pickled>>

(* ------------------------- MetaPolicy methods -------------------------- *)

\* build_graph as it would be if it created the assign ops before raising
build_graph_mut ==
    /\ param_assign_ops' = Some(<<>>)
    /\ param_assign_placeholders' = Some(<<>>)
    /\ Record("build_graph", None, "NotImplementedError", None, {})
    /\ UNCHANGED <<graph, init_args, policy_params, pre_update_mode,
                   policies_params_vals, pickled, lastModeCall>>

build_graph ==
    /\ Record("build_graph", None, "NotImplementedError", None, {})
    /\ UNCHANGED <<graph, fields, pickled, lastModeCall>>

\* OrderedDict(pairs): a key keeps the position of its first occurrence and the
\* value of its last
OrderedDictOf(pairs) ==
    LET firsts == SelectSeq([i \in DOMAIN pairs |-> i],
                            LAMBDA i : \A j \in 1..(i - 1) : pairs[j][1] /= pairs[i][1])
        last(k) == CHOOSE i \in DOMAIN pairs :
                      /\ pairs[i][1] = k
                      /\ \A j \in DOMAIN pairs : pairs[j][1] = k => j <= i
    IN  [n \in DOMAIN firsts |-> <<pairs[firsts[n]][1], pairs[last(pairs[firsts[n]][1])][2]>>]

\* tf.placeholder(tf.float32, shape=shape), the id-th placeholder the call creates
placeholder(id, shape) == [id |-> id, shape |-> shape]

\* the placeholders created for the scopes before the k-th
RECURSIVE CreatedBefore(_, _, _)
CreatedBefore(scopes, k, meta_batch_size) ==
    IF k <= 1 THEN 0
    ELSE CreatedBefore(scopes, k - 1, meta_batch_size)
         + meta_batch_size * Len(get_collection(scopes[k - 1]))

\* the list comprehension as it would be with one dictionary repeated for every
\* task ([dict] * meta_batch_size)
TaskPlaceholders_mut(scope, first, meta_batch_size) ==
    LET var_list == get_collection(scope)
    IN  [t \in 1..meta_batch_size |->
            OrderedDictOf(
              [i \in DOMAIN var_list |->
                 <<remove_scope_from_name(trainable_variables[var_list[i]], scope),
                   placeholder(first + i,
                               ShapeOf(trainable_variables[var_list[i]][2]))>>])]

\* the list comprehension over range(meta_batch_size) for one scope
TaskPlaceholders(scope, first, meta_batch_size) ==
    LET var_list == get_collection(scope)
    IN  [t \in 1..meta_batch_size |->
            OrderedDictOf(
              [i \in DOMAIN var_list |->
                 <<remove_scope_from_name(trainable_variables[var_list[i]], scope),
                   placeholder(first + (t - 1) * Len(var_list) + i,
                               ShapeOf(trainable_variables[var_list[i]][2]))>>])]

\* the loop over the scopes
Placeholders(scopes, meta_batch_size) ==
    [k \in DOMAIN scopes |->
        TaskPlaceholders(scopes[k], CreatedBefore(scopes, k, meta_batch_size),
                         meta_batch_size)]

\* what a policy hands as scopes for its own variables (meta_batch_size left
\* at its default of 1), and a scope name handed bare
OwnScopesArgs ==
    {[type |-> "list", items |-> <<init_args>>], [type |-> "str", items |-> <<>>]}

_create_placeholders_for_vars(scopes, meta_batch_size) ==
    /\ IF scopes.type \notin {"list", "tuple"}
       THEN Record("_create_placeholders_for_vars", <<scopes, meta_batch_size>>,
                   "AssertionError", None, {})
       ELSE Record("_create_placeholders_for_vars", <<scopes, meta_batch_size>>,
                   "ok", Placeholders(scopes.items, meta_batch_size), {})
    /\ UNCHANGED <<graph, fields, pickled, lastModeCall>>

switch_to_pre_update ==
    /\ pre_update_mode' = TRUE
    /\ policies_params_vals' = None
    /\ lastModeCall' = "switch_to_pre_update"
    /\ Record("switch_to_pre_update", None, "ok", None, {})
    /\ UNCHANGED <<graph, init_args, policy_params, param_assign_ops,
                   param_assign_placeholders, pickled>>

_get_pre_update_actions(observations) ==
    /\ Record("_get_pre_update_actions", None, "NotImplementedError", None, {})
    /\ UNCHANGED <<graph, fields, pickled, lastModeCall>>

_get_post_update_actions(observations) ==
    /\ Record("_get_post_update_actions", None, "NotImplementedError", None, {})
    /\ UNCHANGED <<graph, fields, pickled, lastModeCall>>

\* get_actions as it would be with the mode test inverted
get_actions_mut(observations) ==
    /\ IF ~pre_update_mode
       THEN Record("get_actions", None, "NotImplementedError", None,
                   {"_get_pre_update_actions"})
       ELSE Record("get_actions", None, "NotImplementedError", None,
                   {"_get_post_update_actions"})
    /\ UNCHANGED <<graph, fields, pickled, lastModeCall>>

get_actions(observations) ==
    /\ IF pre_update_mode
       THEN Record("get_actions", None, "NotImplementedError", None,
                   {"_get_pre_update_actions"})
       ELSE Record("get_actions", None, "NotImplementedError", None,
                   {"_get_post_update_actions"})
    /\ UNCHANGED <<graph, fields, pickled, lastModeCall>>

\* update_task_parameters as it would be if it extended the stored list
update_task_parameters_mut(updated_policies_parameters) ==
    /\ policies_params_vals' =
          IF policies_params_vals = None
          THEN Some(updated_policies_parameters)
          ELSE Some(policies_params_vals.v \o updated_policies_parameters)
    /\ pre_update_mode' = FALSE
    /\ lastModeCall' = "update_task_parameters"
    /\ Record("update_task_parameters", updated_policies_parameters, "ok", None, {})
    /\ UNCHANGED <<graph, init_args, policy_params, param_assign_ops,
                   param_assign_placeholders, pickled>>

update_task_parameters(updated_policies_parameters) ==
    /\ policies_params_vals' = Some(updated_policies_parameters)
    /\ pre_update_mode' = FALSE
    /\ lastModeCall' = "update_task_parameters"
    /\ Record("update_task_parameters", updated_policies_parameters, "ok", None, {})
    /\ UNCHANGED <<graph, init_args, policy_params, param_assign_ops,
                   param_assign_placeholders, pickled>>

Next ==
    \/ Policy_build_graph
    \/ \E o \in Observations : get_action(o)
    \/ \E o \in Observations : Policy_get_actions(o)
    \/ \E d \in {None} \cup {Some(v) : v \in BOOLEAN} : reset(d)
    \/ \E p \in Observations : log_diagnostics(p)
    \/ distribution
    \/ \E o \in Observations, p \in {None, Some(0)} : distribution_info_sym(o, p)
    \/ \E o \in Observations, s \in {None, Some(0)} : distribution_info_keys(o, s)
    \/ get_params
    \/ get_param_values
    \/ \E given \in OrderedDicts(LocalNames, Values, MaxKeys) : set_params(given)
    \/ __getstate__
    \/ pickled /= None /\ __setstate__(pickled.v)
    \/ build_graph
    \/ \E sc \in OwnScopesArgs : _create_placeholders_for_vars(sc, 1)
    \/ switch_to_pre_update
    \/ \E o \in Observations : _get_pre_update_actions(o)
    \/ \E o \in Observations : _get_post_update_actions(o)
    \/ \E o \in Observations : get_actions(o)
    \/ \E p \in TaskParams : update_task_parameters(p)

Spec == Init /\ [][Next]_vars

\* _create_placeholders_for_vars alone, over all its arguments
NextPlaceholders ==
    \E sc \in ScopesArgs, mbs \in 0..MaxBatch : _create_placeholders_for_vars(sc, mbs)

\* the function reads the graph's collection only: the session and the
\* constructor arguments are held at one value
InitPlaceholders ==
    /\ Init
    /\ init_args = "policy"
    /\ var_values = [i \in DOMAIN trainable_variables |-> 0]

SpecPlaceholders == InitPlaceholders /\ [][NextPlaceholders]_vars

(* ------------------------------ claims --------------------------------- *)

\* C1: MetaPolicy.get_actions calls exactly one delegate: _get_post_update_actions
\* when the most recent of switch_to_pre_update / update_task_parameters was
\* update_task_parameters, and _get_pre_update_actions when it was
\* switch_to_pre_update or when the policy is freshly constructed.
C1_Delegation ==
    method = "get_actions" =>
        called = {IF lastModeCall = "update_task_parameters"
                  THEN "_get_post_update_actions"
                  ELSE "_get_pre_update_actions"}

C1_Witness ==
    /\ method = "get_actions"
    /\ lastModeCall = "update_task_parameters"
    /\ called = {"_get_post_update_actions"}

\* C2: update_task_parameters(p) leaves policies_params_vals exactly p and the
\* policy in post-update mode; switch_to_pre_update leaves policies_params_vals
\* None and the policy in pre-update mode, and a second call in a row changes
\* nothing of the policy, the graph or the session.
C2_ModeSwitch ==
    [][/\ method' = "update_task_parameters" =>
            /\ policies_params_vals' = Some(arg')
            /\ pre_update_mode' = FALSE
       /\ method' = "switch_to_pre_update" =>
            /\ policies_params_vals' = None
            /\ pre_update_mode' = TRUE
       /\ (method = "switch_to_pre_update" /\ method' = "switch_to_pre_update") =>
            UNCHANGED <<graph, fields, pickled>>]_vars

C2_Witness ==
    /\ method = "switch_to_pre_update"
    /\ repeated
    /\ pre_update_mode
    /\ policies_params_vals = None

\* C3: build_graph, get_action, distribution_info_sym and
\* _get_post_update_actions raise NotImplementedError in every state and leave
\* the mode flag, the per-task parameters, param_assign_ops and
\* param_assign_placeholders unchanged.
C3_Methods ==
    {"Policy.build_graph", "build_graph", "get_action", "distribution_info_sym",
     "_get_post_update_actions"}

C3_StubsRaise ==
    [][method' \in C3_Methods =>
          /\ outcome' = "NotImplementedError"
          /\ UNCHANGED <<pre_update_mode, policies_params_vals, param_assign_ops,
                         param_assign_placeholders>>]_vars

C3_Witness ==
    /\ method = "_get_post_update_actions"
    /\ outcome = "NotImplementedError"
    /\ ~pre_update_mode
    /\ policies_params_vals /= None

\* C4 as stated: every method other than the constructor ends in
\* NotImplementedError.
C4_AllRaise == method /= "__init__" => outcome = "NotImplementedError"

AbstractMethods ==
    {"Policy.build_graph", "build_graph", "get_action", "Policy.get_actions",
     "get_actions", "distribution", "distribution_info_sym", "distribution_info_keys",
     "_get_pre_update_actions", "_get_post_update_actions"}

\* C4 amended: a call ends in NotImplementedError exactly when the method is one
\* of the abstract ones (build_graph, get_action, get_actions, distribution,
\* distribution_info_sym, distribution_info_keys, _get_pre_update_actions,
\* _get_post_update_actions); no other method ends in NotImplementedError.
C4_AbstractRaise ==
    method /= "__init__" =>
        (outcome = "NotImplementedError" <=> method \in AbstractMethods)

C4_Witness ==
    /\ method = "reset"
    /\ outcome = "ok"

\* C5 as stated: whenever the key sequence handed to set_params differs from the
\* key sequence of get_params(), the call fails with the assertion error and no
\* variable is assigned.
C5_KeysMustMatch ==
    [][(/\ method' = "set_params"
        /\ policy_params /= Unset
        /\ Keys(arg') /= Keys(policy_params.v)) =>
          /\ outcome' = "AssertionError"
          /\ var_values' = var_values]_vars

C7_RoundTrip ==
    /\ (method = "__getstate__" /\ outcome = "ok") =>
          /\ DOMAIN ret = {"init_args", "network_params"}
          /\ ret.init_args = init_args
          /\ ret.network_params = ParamValues(policy_params.v, var_values)
    /\ (method = "__setstate__" /\ policy_params /= Unset) =>
          /\ outcome = "ok"
          /\ init_args = pickled.v.init_args
          /\ ParamValues(policy_params.v, var_values) = pickled.v.network_params

C7_Witness ==
    /\ method = "__setstate__"
    /\ outcome = "ok"
    /\ Len(pickled.v.network_params) = 2
    /\ pickled.v.network_params[1][2] /= pickled.v.network_params[2][2]

\* the local names of the variables of a scope, in collection order
C8_Collected(scope) ==
    LET vs == SelectSeq(trainable_variables, LAMBDA v : v[1] = scope)
    IN  [i \in DOMAIN vs |-> vs[i][2]]

\* the placeholders of a result, one <<scope index, task index, key index>> each
C8_Slots(r) ==
    {<<k, t, i>> \in (DOMAIN r) \X (0..MaxBatch) \X (1..MaxVars) :
        t \in DOMAIN r[k] /\ i \in DOMAIN r[k][t]}

\* C8: _create_placeholders_for_vars fails its assertion unless scopes is a list
\* or a tuple; otherwise the result has one entry per scope in order, each a list
\* of meta_batch_size dictionaries, each dictionary keyed by the local names of
\* the scope's variables in collection order, each key mapped to a placeholder
\* of its variable's shape, and no placeholder occurs twice in the result.
C8_Placeholders ==
    method = "_create_placeholders_for_vars" =>
        LET scopes == arg[1]
            meta_batch_size == arg[2]
        IN  /\ scopes.type \notin {"list", "tuple"} => outcome = "AssertionError"
            /\ scopes.type \in {"list", "tuple"} =>
                 /\ outcome = "ok"
                 /\ Len(ret) = Len(scopes.items)
                 /\ \A k \in DOMAIN ret :
                      /\ Len(ret[k]) = meta_batch_size
                      /\ \A t \in DOMAIN ret[k] :
                           /\ Keys(ret[k][t]) = C8_Collected(scopes.items[k])
                           /\ \A i \in DOMAIN ret[k][t] :
                                ret[k][t][i][2].shape = ShapeOf(ret[k][t][i][1])
                 /\ \A a, b \in C8_Slots(ret) :
                      a /= b => ret[a[1]][a[2]][a[3]][2].id /= ret[b[1]][b[2]][b[3]][2].id

C8_Witness ==
    /\ method = "_create_placeholders_for_vars"
    /\ outcome = "ok"
    /\ Len(ret) = 2
    /\ arg[2] = 2
    /\ Len(ret[1][1]) >= 1
    /\ Len(ret[2][2]) >= 1

\* C9: reset, log_diagnostics, get_params and MetaPolicy.get_actions leave the
\* mode flag, the per-task parameters and the variable values as they were.
C9_Methods == {"reset", "log_diagnostics", "get_params", "get_actions"}

C9_Frame ==
    [][method' \in C9_Methods =>
          UNCHANGED <<pre_update_mode, policies_params_vals, var_values>>]_vars

C9_Witness ==
    /\ method = "reset"
    /\ ~pre_update_mode
    /\ policies_params_vals /= None

====
